---- MODULE Spec2Model ----
(***************************************************************************)
(* Model of the R binding layer of ctcomputeR (src/rust/src/lib.rs): the   *)
(* two exported entry points ctcompute and ss_range.  One call is one      *)
(* behaviour: Init is the state at function entry with the arguments       *)
(* bound, and each action is one statement group of the function body      *)
(* (resolve the lower selector, resolve the upper selector, construct the  *)
(* enrollment model, run the solver and build the return value).           *)
(*                                                                         *)
(* The engine (EnrollmentRate::new, compute_trial, compute_ss_range) lives *)
(* in the separate ctcompute crate; its contract is taken from spec.md     *)
(* sections 3, 4 and 7 and kept in the section headed "Engine" below.      *)
(* extendr_api::throw_r_error is taken to raise its argument as the R      *)
(* error message, as given.                                                *)
(***************************************************************************)
EXTENDS Integers, Sequences, FiniteSets, TLC

VARIABLES
    fn,                           \* which entry point is running
    maybe_lower_spending_fcn,     \* argument: Option<String>
    maybe_upper_spending_fcn,     \* argument: Option<String>
    maybe_look_fractions,         \* argument: Option<Vec<f64>>
    enrollment_rates,             \* argument: Vec<f64>
    enrollment_times,             \* argument: Vec<f64>
    maybe_custom_alpha_spend,     \* argument: Option<Vec<f64>>
    maybe_lower_spending_fcn_ref, \* resolved lower boundary: Option<SpendingFcn>
    maybe_upper_spending_fcn_ref, \* resolved upper boundary: Option<SpendingFcn>
    enrollment_rate,              \* constructed EnrollmentRate (Option while unbound)
    engine_ret,                   \* last Result returned by an engine function
    pc,                           \* position in the function body
    steps,                        \* history: the statement groups executed so far
    solver_calls,                 \* history: number of solver invocations
    console,                      \* lines written to the R console by rprintln!
    outcome                       \* what the call hands back to the host

vars == <<fn, maybe_lower_spending_fcn, maybe_upper_spending_fcn,
          maybe_look_fractions, enrollment_rates, enrollment_times,
          maybe_custom_alpha_spend, maybe_lower_spending_fcn_ref,
          maybe_upper_spending_fcn_ref, enrollment_rate, engine_ret, pc,
          steps, solver_calls, console, outcome>>

args == <<fn, maybe_lower_spending_fcn, maybe_upper_spending_fcn,
          maybe_look_fractions, enrollment_rates, enrollment_times,
          maybe_custom_alpha_spend>>

----------------------------------------------------------------------------
(* Bounds of the model.                                                    *)

\* longest enrollment_times / enrollment_rates vector
MaxEnroll == 2
\* longest custom_alpha_spend vector
MaxSpend == 2
\* longest look_fractions vector
MaxLooks == 2
\* largest patient count the solver reports
MaxN == 2

----------------------------------------------------------------------------
(* Rust values.                                                            *)

\* Option<T>: None is the empty tuple, Some(x) the one-element tuple.
None == <<>>
Some(x) == <<x>>
IsSome(o) == Len(o) = 1
Unwrap(o) == o[1]

\* Result<T, E>
Ok(v) == [ok |-> TRUE, val |-> v, err |-> <<>>]
Err(e) == [ok |-> FALSE, val |-> <<>>, err |-> e]

\* SpendingFcn::LDOF and SpendingFcn::Custom { cumulative_spend }
LDOF == [tag |-> "LDOF", cumulative_spend |-> <<>>]
Custom(spend) == [tag |-> "Custom", cumulative_spend |-> spend]

\* <[f64] as Into<Vec<f64>>>::into : an element-for-element copy
Into(slice) == [i \in 1..Len(slice) |-> slice[i]]

RECURSIVE SeqsUpTo(_, _)
SeqsUpTo(S, n) ==
    IF n = 0 THEN {<<>>}
    ELSE LET shorter == SeqsUpTo(S, n - 1)
         IN  shorter \cup {Append(s, x) : s \in {t \in shorter : Len(t) = n - 1}, x \in S}

----------------------------------------------------------------------------
(* Argument values the calls are made with.                                *)

\* the two known selectors, an unknown family name, and a known one in the wrong case
Selectors == {"LDOF", "custom", "OBF", "ldof"}
OptSelectors == {None} \cup {Some(s) : s \in Selectors}

\* A cumulative spend vector of n entries, all distinct: 1, 2, ..., n.
SpendVec(n) == [i \in 1..n |-> i]
OptSpends == {None} \cup {Some(SpendVec(n)) : n \in 0..MaxSpend}

\* n equally spaced information fractions (tenths), the last one being 1; the
\* host may also pass an empty vector.
LookVec(n) == [i \in 1..n |-> (10 * i) \div n]
OptLooks == {None} \cup {Some(LookVec(n)) : n \in 0..MaxLooks}

TimeValues == {0, 3, 5}
RateValues == {-1, 10}

\* the error scenario of spec.md section 8: non-monotonic times [0, 5, 3], with
\* one rate per time
ScenarioTimes == <<0, 5, 3>>
ScenarioRates == <<10, 10, 10>>

TimeVecs == SeqsUpTo(TimeValues, MaxEnroll) \cup {ScenarioTimes}
RateVecs == SeqsUpTo(RateValues, MaxEnroll) \cup {ScenarioRates}

----------------------------------------------------------------------------
(* How one match arm of a selector site ends: with a value, by raising an  *)
(* R error on the spot (throw_r_error), or with an Err that the ?          *)
(* operator returns from the function.                                     *)

Resolved(v) == [how |-> "value", val |-> v, msg |-> ""]
Thrown(m) == [how |-> "throw_r_error", val |-> None, msg |-> m]
Returned(m) == [how |-> "Err", val |-> None, msg |-> m]

\* The message texts of lib.rs.  A TLA+ string cannot hold a backquote, so the
\* backquotes of the Rust literals are written as single quotes here.
MissingLowerMsg ==
    "'maybe_custom_alpha_spend' must be specified when maybe_lower_spending_fcn = 'custom'"
MissingUpperMsg ==
    "'maybe_custom_alpha_spend' must be specified when maybe_upper_spending_fcn = 'custom'"
\* format!("invalid spending function: '{}'", unknown_spend)
InvalidFmt(unknown_spend) == "invalid spending function: '" \o unknown_spend \o "'"
InvalidMsg == "invalid spending function"

\* ctcompute, lower selector: match (selector, custom spend), arms in order.
CtLowerMatch(sel, spend) ==
    IF sel = Some("LDOF") THEN Resolved(Some(LDOF))
    ELSE IF sel = Some("custom") /\ IsSome(spend)
        THEN Resolved(Some(Custom(Into(Unwrap(spend)))))
    ELSE IF sel = Some("custom") /\ spend = None THEN Thrown(MissingLowerMsg)
    ELSE IF sel = None THEN Resolved(None)
    ELSE Thrown(InvalidFmt(Unwrap(sel)))

\* Variant of CtUpperMatch: an unknown selector falls back to the LDOF boundary.
CtUpperMatch_UnknownDefaults(sel, spend) ==
    IF sel = Some("LDOF") THEN Resolved(Some(LDOF))
    ELSE IF sel = Some("custom") /\ IsSome(spend)
        THEN Resolved(Some(Custom(Into(Unwrap(spend)))))
    ELSE IF sel = Some("custom") /\ spend = None THEN Thrown(MissingUpperMsg)
    ELSE IF sel = None THEN Resolved(None)
    ELSE Resolved(Some(LDOF))

\* ctcompute, upper selector.
CtUpperMatch(sel, spend) ==
    IF sel = Some("LDOF") THEN Resolved(Some(LDOF))
    ELSE IF sel = Some("custom") /\ IsSome(spend)
        THEN Resolved(Some(Custom(Into(Unwrap(spend)))))
    ELSE IF sel = Some("custom") /\ spend = None THEN Thrown(MissingUpperMsg)
    ELSE IF sel = None THEN Resolved(None)
    ELSE Thrown(InvalidFmt(Unwrap(sel)))

\* Variant of SsLowerMatch: this one site takes an unknown selector as absent.
SsLowerMatch_Drift(sel, spend) ==
    IF sel = Some("LDOF") THEN Resolved(Some(LDOF))
    ELSE IF sel = Some("custom") /\ IsSome(spend)
        THEN Resolved(Some(Custom(Into(Unwrap(spend)))))
    ELSE IF sel = Some("custom") /\ spend = None THEN Thrown(MissingLowerMsg)
    ELSE Resolved(None)

\* ss_range, lower selector: the last arm is _ => Err(..), returned by the ? operator.
SsLowerMatch(sel, spend) ==
    IF sel = Some("LDOF") THEN Resolved(Some(LDOF))
    ELSE IF sel = Some("custom") /\ IsSome(spend)
        THEN Resolved(Some(Custom(Into(Unwrap(spend)))))
    ELSE IF sel = Some("custom") /\ spend = None THEN Thrown(MissingLowerMsg)
    ELSE IF sel = None THEN Resolved(None)
    ELSE Returned(InvalidMsg)

\* Variant of SsUpperMatch: custom without a spend vector falls back to LDOF.
SsUpperMatch_FallbackLDOF(sel, spend) ==
    IF sel = Some("LDOF") THEN Resolved(Some(LDOF))
    ELSE IF sel = Some("custom") /\ IsSome(spend)
        THEN Resolved(Some(Custom(Into(Unwrap(spend)))))
    ELSE IF sel = Some("custom") /\ spend = None THEN Resolved(Some(LDOF))
    ELSE IF sel = None THEN Resolved(None)
    ELSE Returned(InvalidMsg)

\* ss_range, upper selector.
SsUpperMatch(sel, spend) ==
    IF sel = Some("LDOF") THEN Resolved(Some(LDOF))
    ELSE IF sel = Some("custom") /\ IsSome(spend)
        THEN Resolved(Some(Custom(Into(Unwrap(spend)))))
    ELSE IF sel = Some("custom") /\ spend = None THEN Thrown(MissingUpperMsg)
    ELSE IF sel = None THEN Resolved(None)
    ELSE Returned(InvalidMsg)

----------------------------------------------------------------------------
(* Engine: contract of the ctcompute crate as spec.md states it.           *)

\* The error taxonomy (spec.md section 7): an error value has a kind and the
\* text its Display implementation renders.
DisplayText(kind) ==
    CASE kind = "InvalidEnrollmentModel" -> "malformed enrollment times/rates"
      [] kind = "MissingCustomSpend" -> "custom spending without matching cumulative spend"
      [] kind = "InvalidParameterRange" -> "parameter outside its admissible range"
      [] kind = "Unreachable" -> "enrollment cannot reach the required patient count"
      [] kind = "NonConvergence" -> "root-finding exceeded its iteration budget"
EngineError(kind) == [kind |-> kind, text |-> DisplayText(kind)]
InvalidEnrollmentModel == EngineError("InvalidEnrollmentModel")
MissingCustomSpend == EngineError("MissingCustomSpend")
\* the failure modes of the solver (spec.md 4.3), decided by arguments the
\* binding only forwards
SolverErrors ==
    {EngineError(k) : k \in {"MissingCustomSpend", "InvalidParameterRange",
                              "Unreachable", "NonConvergence"}}

StrictlyIncreasingFromZero(times) ==
    /\ Len(times) > 0 => times[1] >= 0
    /\ \A i \in 1..(Len(times) - 1) : times[i] < times[i + 1]

\* EnrollmentRate::new(times, rates)
EnrollmentRate_new(times, rates) ==
    IF /\ Len(times) = Len(rates)
       /\ StrictlyIncreasingFromZero(times)
       /\ \A i \in 1..Len(rates) : rates[i] >= 0
    THEN Ok([times |-> times, rates |-> rates])
    ELSE Err(InvalidEnrollmentModel)

\* number of looks: the schedule's length, or the single final look
LookCount(looks) == IF IsSome(looks) THEN Len(Unwrap(looks)) ELSE 1

TrialDesign(n) ==
    [accrual_duration |-> 10 + n, trial_duration |-> 20 + n, n_events |-> n,
     n_patients |-> 2 * n, h0_expected_accrual_duration |-> 30 + n,
     h1_expected_accrual_duration |-> 40 + n, h0_expected_trial_duration |-> 50 + n,
     h1_expected_trial_duration |-> 60 + n, h0_expected_sample_size |-> 70 + n,
     h1_expected_sample_size |-> 80 + n]

\* compute_trial(..): the Results it may return.  The solver takes boundaries
\* that are already constructed (spec.md 2, 4.2: a spend vector that does not
\* match the look schedule is an error of the boundary's construction), so its
\* contract names no check of its own on them.
compute_trial(lower, upper, looks, er) ==
    {Ok(TrialDesign(n)) : n \in 1..MaxN} \cup {Err(e) : e \in SolverErrors}

\* compute_ss_range(..): a pair (n_low, n_high) with n_low <= n_high, or an error
compute_ss_range(lower, upper, looks, er) ==
    {Ok(p) : p \in {q \in (1..MaxN) \X (1..MaxN) : q[1] <= q[2]}}
        \cup {Err(e) : e \in SolverErrors}

----------------------------------------------------------------------------
(* The binding layer's own statements.                                     *)

\* Variant of to_string: the text is wrapped before it is raised.
to_string_Prefixed(e) == "Error: " \o e.text

\* e.to_string(): the Display text of an engine error
to_string(e) == e.text

\* Err(e) => { rprintln!(""); throw_r_error(&e.to_string()) }
ThrowEngineError(e) == [kind |-> "failure", how |-> "throw_r_error",
                        msg |-> to_string(e), value |-> <<>>]

\* list!(accrual_duration = ct.accrual_duration, ...) of ctcompute
TrialDesignList(ct) ==
    [accrual_duration |-> ct.accrual_duration,
     trial_duration |-> ct.trial_duration,
     n_events |-> ct.n_events,
     n_patients |-> ct.n_patients,
     h0_expected_accrual_duration |-> ct.h0_expected_accrual_duration,
     h1_expected_accrual_duration |-> ct.h1_expected_accrual_duration,
     h0_expected_trial_duration |-> ct.h0_expected_trial_duration,
     h1_expected_trial_duration |-> ct.h1_expected_trial_duration,
     h0_expected_sample_size |-> ct.h0_expected_sample_size,
     h1_expected_sample_size |-> ct.h1_expected_sample_size]

\* Variant of RangeVec: the two tuple fields in the other order.
RangeVec_Swapped(ss_range_tup) == <<ss_range_tup[2], ss_range_tup[1]>>

\* Ok(vec![ss_range_tup.0, ss_range_tup.1]) of ss_range
RangeVec(ss_range_tup) == <<ss_range_tup[1], ss_range_tup[2]>>

\* Variant of Failure: a best-effort empty result instead of an error.
Failure_BestEffort(how, m) == [kind |-> "success", how |-> "return", msg |-> "", value |-> <<>>]

\* what the host sees of a call
Pending == [kind |-> "pending", how |-> "", msg |-> "", value |-> <<>>]
Failure(how, m) == [kind |-> "failure", how |-> how, msg |-> m, value |-> <<>>]
Success(v) == [kind |-> "success", how |-> "return", msg |-> "", value |-> v]

\* Variant of AfterLower: the enrollment model is built before the upper selector
\* is looked at.
AfterLower_EnrollFirst == "enroll"

\* program order of the statement groups in both function bodies
AfterLower == "upper"
AfterUpper == "enroll"
AfterEnroll == "solve"

Init ==
    /\ fn \in {"ctcompute", "ss_range"}
    /\ maybe_lower_spending_fcn \in OptSelectors
    /\ maybe_upper_spending_fcn \in OptSelectors
    /\ maybe_look_fractions \in OptLooks
    /\ enrollment_rates \in RateVecs
    /\ enrollment_times \in TimeVecs
    /\ maybe_custom_alpha_spend \in OptSpends
    /\ maybe_lower_spending_fcn_ref = None
    /\ maybe_upper_spending_fcn_ref = None
    /\ enrollment_rate = None
    /\ engine_ret = None
    /\ pc = "lower"
    /\ steps = <<>>
    /\ solver_calls = 0
    /\ console = <<>>
    /\ outcome = Pending

\* A selector site: bind the resolved boundary and go on, or end the call.
ResolveLower(r) ==
    /\ steps' = Append(steps, "lower")
    /\ IF r.how = "value"
       THEN /\ maybe_lower_spending_fcn_ref' = r.val
            /\ pc' = AfterLower
            /\ UNCHANGED outcome
       ELSE /\ outcome' = Failure(r.how, r.msg)
            /\ pc' = "done"
            /\ UNCHANGED maybe_lower_spending_fcn_ref
    /\ UNCHANGED <<args, maybe_upper_spending_fcn_ref, enrollment_rate,
                   engine_ret, solver_calls, console>>

ResolveUpper(r) ==
    /\ steps' = Append(steps, "upper")
    /\ IF r.how = "value"
       THEN /\ maybe_upper_spending_fcn_ref' = r.val
            /\ pc' = AfterUpper
            /\ UNCHANGED outcome
       ELSE /\ outcome' = Failure(r.how, r.msg)
            /\ pc' = "done"
            /\ UNCHANGED maybe_upper_spending_fcn_ref
    /\ UNCHANGED <<args, maybe_lower_spending_fcn_ref, enrollment_rate,
                   engine_ret, solver_calls, console>>

\* ctcompute lines 43-60
CtResolveLower ==
    /\ fn = "ctcompute" /\ pc = "lower"
    /\ ResolveLower(CtLowerMatch(maybe_lower_spending_fcn, maybe_custom_alpha_spend))

\* ctcompute lines 62-79
CtResolveUpper ==
    /\ fn = "ctcompute" /\ pc = "upper"
    /\ ResolveUpper(CtUpperMatch(maybe_upper_spending_fcn, maybe_custom_alpha_spend))

\* ss_range lines 163-180
SsResolveLower ==
    /\ fn = "ss_range" /\ pc = "lower"
    /\ ResolveLower(SsLowerMatch(maybe_lower_spending_fcn, maybe_custom_alpha_spend))

\* ss_range lines 182-200
SsResolveUpper ==
    /\ fn = "ss_range" /\ pc = "upper"
    /\ ResolveUpper(SsUpperMatch(maybe_upper_spending_fcn, maybe_custom_alpha_spend))

\* Variant of ConstructEnrollment: the Result is not inspected and the vectors are
\* used as they came.
ConstructEnrollment_Unchecked ==
    /\ steps' = Append(steps, "enroll")
    /\ engine_ret' = Some(EnrollmentRate_new(enrollment_times, enrollment_rates))
    /\ enrollment_rate' = Some([times |-> enrollment_times, rates |-> enrollment_rates])
    /\ pc' = AfterEnroll
    /\ UNCHANGED <<args, maybe_lower_spending_fcn_ref, maybe_upper_spending_fcn_ref,
                   solver_calls, console, outcome>>

\* match EnrollmentRate::new(enrollment_times, enrollment_rates): the Err arm
\* prints an empty line with rprintln! and then raises the error's text.
ConstructEnrollment ==
    LET r == EnrollmentRate_new(enrollment_times, enrollment_rates)
    IN  /\ steps' = Append(steps, "enroll")
        /\ engine_ret' = Some(r)
        /\ IF r.ok
           THEN /\ enrollment_rate' = Some(r.val)
                /\ pc' = AfterEnroll
                /\ UNCHANGED <<console, outcome>>
           ELSE /\ console' = Append(console, "")
                /\ outcome' = ThrowEngineError(r.err)
                /\ pc' = "done"
                /\ UNCHANGED enrollment_rate
        /\ UNCHANGED <<args, maybe_lower_spending_fcn_ref,
                       maybe_upper_spending_fcn_ref, solver_calls>>

\* ctcompute lines 83-89
CtEnroll == fn = "ctcompute" /\ pc = "enroll" /\ ConstructEnrollment

\* ss_range lines 204-210
SsEnroll == fn = "ss_range" /\ pc = "enroll" /\ ConstructEnrollment

\* ctcompute lines 91-124: compute_trial, then the list on Ok, the R error on Err
CtSolve ==
    /\ fn = "ctcompute" /\ pc = "solve"
    /\ \E r \in compute_trial(maybe_lower_spending_fcn_ref, maybe_upper_spending_fcn_ref,
                              maybe_look_fractions, Unwrap(enrollment_rate)) :
        /\ engine_ret' = Some(r)
        /\ IF r.ok
           THEN /\ outcome' = Success(TrialDesignList(r.val))
                /\ UNCHANGED console
           ELSE /\ console' = Append(console, "")
                /\ outcome' = ThrowEngineError(r.err)
    /\ steps' = Append(steps, "solve")
    /\ solver_calls' = solver_calls + 1
    /\ pc' = "done"
    /\ UNCHANGED <<args, maybe_lower_spending_fcn_ref, maybe_upper_spending_fcn_ref,
                   enrollment_rate>>

\* ss_range lines 212-234: compute_ss_range, then the vector on Ok, the R error on Err
SsSolve ==
    /\ fn = "ss_range" /\ pc = "solve"
    /\ \E r \in compute_ss_range(maybe_lower_spending_fcn_ref, maybe_upper_spending_fcn_ref,
                                 maybe_look_fractions, Unwrap(enrollment_rate)) :
        /\ engine_ret' = Some(r)
        /\ IF r.ok
           THEN /\ outcome' = Success(RangeVec(r.val))
                /\ UNCHANGED console
           ELSE /\ console' = Append(console, "")
                /\ outcome' = ThrowEngineError(r.err)
    /\ steps' = Append(steps, "solve")
    /\ solver_calls' = solver_calls + 1
    /\ pc' = "done"
    /\ UNCHANGED <<args, maybe_lower_spending_fcn_ref, maybe_upper_spending_fcn_ref,
                   enrollment_rate>>

Next ==
    \/ CtResolveLower
    \/ CtResolveUpper
    \/ CtEnroll
    \/ CtSolve
    \/ SsResolveLower
    \/ SsResolveUpper
    \/ SsEnroll
    \/ SsSolve

Spec == Init /\ [][Next]_vars

----------------------------------------------------------------------------
(* Vocabulary of the properties.                                           *)

Done == pc = "done"
Failed == outcome.kind = "failure"
Succeeded == outcome.kind = "success"

\* the selector site of the running entry point, applied to the call's arguments
LowerSite ==
    IF fn = "ctcompute"
    THEN CtLowerMatch(maybe_lower_spending_fcn, maybe_custom_alpha_spend)
    ELSE SsLowerMatch(maybe_lower_spending_fcn, maybe_custom_alpha_spend)
UpperSite ==
    IF fn = "ctcompute"
    THEN CtUpperMatch(maybe_upper_spending_fcn, maybe_custom_alpha_spend)
    ELSE SsUpperMatch(maybe_upper_spending_fcn, maybe_custom_alpha_spend)

CustomWithoutSpend(sel) == sel = Some("custom") /\ maybe_custom_alpha_spend = None
UnknownSelector(sel) == IsSome(sel) /\ Unwrap(sel) \notin {"LDOF", "custom"}

IsMissingCustomSpendMsg(m) == m \in {MissingLowerMsg, MissingUpperMsg}
IsInvalidSpendingFunctionMsg(m) ==
    m \in {InvalidMsg} \cup {InvalidFmt(u) : u \in Selectors}

AllSteps == <<"lower", "upper", "enroll", "solve">>

----------------------------------------------------------------------------
\* C1 (as stated): whenever a side asks for "custom" and custom_alpha_spend is
\* absent, the call fails with a missing-custom-spend error and the solver is
\* never reached.
C1_AlwaysMissingCustomSpend ==
    (CustomWithoutSpend(maybe_lower_spending_fcn)
        \/ CustomWithoutSpend(maybe_upper_spending_fcn))
    => /\ solver_calls = 0
       /\ ~Succeeded
       /\ Done => Failed /\ IsMissingCustomSpendMsg(outcome.msg)

\* C1 (amended): such a call never reaches the solver and always fails; the
\* failure is the missing-custom-spend error of the first side that asks for
\* "custom", unless the lower selector is an unrecognized string, in which case
\* the lower site fails first with the invalid-spending-function error.
C1_MissingCustomSpend ==
    (CustomWithoutSpend(maybe_lower_spending_fcn)
        \/ CustomWithoutSpend(maybe_upper_spending_fcn))
    => /\ solver_calls = 0
       /\ ~Succeeded
       /\ Done =>
            /\ Failed
            /\ IF UnknownSelector(maybe_lower_spending_fcn)
               THEN IsInvalidSpendingFunctionMsg(outcome.msg)
               ELSE IF CustomWithoutSpend(maybe_lower_spending_fcn)
               THEN outcome.msg = MissingLowerMsg
               ELSE outcome.msg = MissingUpperMsg

\* C1 witness: ss_range with lower "LDOF", upper "custom" and no spend vector has
\* ended with the upper site's missing-custom-spend error.
C1_Witness ==
    /\ Done /\ fn = "ss_range"
    /\ maybe_lower_spending_fcn = Some("LDOF")
    /\ CustomWithoutSpend(maybe_upper_spending_fcn)
    /\ Failed /\ outcome.msg = MissingUpperMsg
    /\ steps = <<"lower", "upper">>

\* C2 (as stated): whenever a side's selector is a string other than "LDOF" and
\* "custom", the call fails with the invalid-spending-function error and the
\* solver is never invoked.
C2_AlwaysInvalidSpendingFunction ==
    (UnknownSelector(maybe_lower_spending_fcn)
        \/ UnknownSelector(maybe_upper_spending_fcn))
    => /\ solver_calls = 0
       /\ ~Succeeded
       /\ Done => Failed /\ IsInvalidSpendingFunctionMsg(outcome.msg)

\* C2 (amended): such a call never gets past the site of the unknown selector,
\* never reaches the solver and always fails, with or without a spend vector;
\* the failure is the invalid-spending-function
\* error, unless only the upper selector is unknown and the lower one is "custom"
\* without a spend vector, in which case the lower site fails first with the
\* missing-custom-spend error.
C2_InvalidSpendingFunction ==
    (UnknownSelector(maybe_lower_spending_fcn)
        \/ UnknownSelector(maybe_upper_spending_fcn))
    => /\ solver_calls = 0
       /\ ~Succeeded
       /\ UnknownSelector(maybe_lower_spending_fcn) => pc \in {"lower", "done"}
       /\ UnknownSelector(maybe_upper_spending_fcn) => pc \in {"lower", "upper", "done"}
       /\ Done =>
            /\ Failed
            /\ IF UnknownSelector(maybe_lower_spending_fcn)
               THEN outcome.msg = IF fn = "ctcompute"
                                  THEN InvalidFmt(Unwrap(maybe_lower_spending_fcn))
                                  ELSE InvalidMsg
               ELSE IF CustomWithoutSpend(maybe_lower_spending_fcn)
               THEN outcome.msg = MissingLowerMsg
               ELSE outcome.msg = IF fn = "ctcompute"
                                  THEN InvalidFmt(Unwrap(maybe_upper_spending_fcn))
                                  ELSE InvalidMsg

\* C2 witness: ctcompute with lower "custom", a spend vector and an unknown upper
\* selector has ended with the invalid-spending-function error.
C2_Witness ==
    /\ Done /\ fn = "ctcompute"
    /\ maybe_lower_spending_fcn = Some("custom")
    /\ IsSome(maybe_custom_alpha_spend)
    /\ maybe_upper_spending_fcn = Some("OBF")
    /\ Failed /\ outcome.msg = InvalidFmt("OBF")
    /\ solver_calls = 0

\* the spend vector is present and its length is not the number of looks
SpendLengthMismatch ==
    /\ IsSome(maybe_custom_alpha_spend)
    /\ Len(Unwrap(maybe_custom_alpha_spend)) # LookCount(maybe_look_fractions)

\* a bound Custom boundary whose spend vector does not have one entry per look
WrongLengthCustom(boundary) ==
    /\ IsSome(boundary)
    /\ Unwrap(boundary).tag = "Custom"
    /\ Len(Unwrap(boundary).cumulative_spend) # LookCount(maybe_look_fractions)

AllFourSucceeded ==
    /\ LowerSite.how = "value"
    /\ UpperSite.how = "value"
    /\ EnrollmentRate_new(enrollment_times, enrollment_rates).ok
    /\ solver_calls = 1
    /\ IsSome(engine_ret) /\ Unwrap(engine_ret).ok

\* C4: a result value is returned only when lower resolution, upper resolution,
\* enrollment construction and the solve all succeeded, and it is then the
\* solver's result; in every other case the finished call is a failure and
\* holds no result value.
C4_AllOrNothing ==
    /\ Succeeded =>
         /\ Done
         /\ steps = AllSteps
         /\ AllFourSucceeded
         /\ outcome.value = IF fn = "ctcompute"
                            THEN TrialDesignList(Unwrap(engine_ret).val)
                            ELSE RangeVec(Unwrap(engine_ret).val)
    /\ ~Succeeded => outcome.value = <<>>
    /\ Done => Succeeded \/ Failed
    /\ (Done /\ ~AllFourSucceeded) => Failed

\* C4 witness: a ctcompute call with two custom boundaries has returned the
\* complete TrialDesign list.
C4_Witness ==
    /\ Done /\ fn = "ctcompute" /\ Succeeded
    /\ maybe_lower_spending_fcn = Some("custom")
    /\ maybe_upper_spending_fcn = Some("custom")
    /\ outcome.value = TrialDesignList(TrialDesign(MaxN))

\* C5 (as stated): no call writes anything to the host console.
C5_NothingPrinted == console = <<>>

\* C6: when EnrollmentRate::new or the solver returned an error, the failure
\* raised to the host carries exactly that error's message text.
C6_MessageVerbatim ==
    (Done /\ IsSome(engine_ret) /\ ~Unwrap(engine_ret).ok)
    => Failed /\ outcome.msg = Unwrap(engine_ret).err.text

\* C6 witness: ss_range ended with the solver's NonConvergence text.
C6_Witness ==
    /\ Done /\ fn = "ss_range" /\ solver_calls = 1
    /\ Unwrap(engine_ret) = Err(EngineError("NonConvergence"))
    /\ Failed /\ outcome.msg = DisplayText("NonConvergence")

\* the enrollment arguments the claim C7 names
BadEnrollment ==
    \/ Len(enrollment_times) # Len(enrollment_rates)
    \/ \E i \in 1..(Len(enrollment_times) - 1) :
          enrollment_times[i] >= enrollment_times[i + 1]
    \/ \E i \in 1..Len(enrollment_rates) : enrollment_rates[i] < 0

\* C7 (as stated): a call with such enrollment arguments fails with
\* InvalidEnrollmentModel and the solver is never invoked.
C7_AlwaysInvalidEnrollmentModel ==
    BadEnrollment
    => /\ solver_calls = 0
       /\ ~Succeeded
       /\ Done => Failed /\ outcome.msg = InvalidEnrollmentModel.text

\* C7 (amended): a call with such enrollment arguments never invokes the
\* solver and always fails; the failure is InvalidEnrollmentModel when both
\* boundary selectors resolve, and otherwise the error of the selector site
\* that failed first.
C7_InvalidEnrollmentModel ==
    BadEnrollment
    => /\ solver_calls = 0
       /\ ~Succeeded
       /\ Done =>
            /\ Failed
            /\ outcome.msg = IF LowerSite.how # "value" THEN LowerSite.msg
                             ELSE IF UpperSite.how # "value" THEN UpperSite.msg
                             ELSE InvalidEnrollmentModel.text

\* C7 witness: ctcompute with enrollment times [0, 5, 3] ended with
\* InvalidEnrollmentModel.
C7_Witness ==
    /\ Done /\ fn = "ctcompute"
    /\ enrollment_times = ScenarioTimes
    /\ enrollment_rates = ScenarioRates
    /\ Failed /\ outcome.msg = InvalidEnrollmentModel.text
    /\ steps = <<"lower", "upper", "enroll">>

\* C8: a successful ss_range returns exactly two elements, the search's lower
\* bound first and its upper bound second, with n_low <= n_high.
C8_RangeOrdered ==
    (fn = "ss_range" /\ Succeeded)
    => /\ Len(outcome.value) = 2
       /\ outcome.value[1] = Unwrap(engine_ret).val[1]
       /\ outcome.value[2] = Unwrap(engine_ret).val[2]
       /\ outcome.value[1] <= outcome.value[2]

\* C8 witness: ss_range has returned a range whose two ends differ.
C8_Witness ==
    /\ Done /\ fn = "ss_range" /\ Succeeded
    /\ outcome.value = <<1, MaxN>>

\* the rule of claim C9 for one (selector, custom spend) pair
ResolutionRule(sel, spend) ==
    IF sel = Some("LDOF") THEN [fails |-> FALSE, val |-> Some(LDOF)]
    ELSE IF sel = Some("custom") /\ IsSome(spend)
        THEN [fails |-> FALSE, val |-> Some(Custom(Unwrap(spend)))]
    ELSE IF sel = None THEN [fails |-> FALSE, val |-> None]
    ELSE [fails |-> TRUE, val |-> None]
SiteOutcome(r) == [fails |-> r.how # "value", val |-> r.val]

\* C9: the four selector sites decide every (selector, spend) pair the same
\* way, namely by the rule above, and the boundaries a call has bound are the
\* rule's.
C9_OneResolutionRule ==
    /\ \A sel \in {maybe_lower_spending_fcn, maybe_upper_spending_fcn} :
          LET rule == ResolutionRule(sel, maybe_custom_alpha_spend)
          IN  /\ SiteOutcome(CtLowerMatch(sel, maybe_custom_alpha_spend)) = rule
              /\ SiteOutcome(CtUpperMatch(sel, maybe_custom_alpha_spend)) = rule
              /\ SiteOutcome(SsLowerMatch(sel, maybe_custom_alpha_spend)) = rule
              /\ SiteOutcome(SsUpperMatch(sel, maybe_custom_alpha_spend)) = rule
    /\ "lower" \in {steps[i] : i \in 1..Len(steps)} =>
          LET rule == ResolutionRule(maybe_lower_spending_fcn, maybe_custom_alpha_spend)
          IN  /\ maybe_lower_spending_fcn_ref = rule.val
              /\ rule.fails <=> (Failed /\ steps = <<"lower">>)
    /\ "upper" \in {steps[i] : i \in 1..Len(steps)} =>
          LET rule == ResolutionRule(maybe_upper_spending_fcn, maybe_custom_alpha_spend)
          IN  /\ maybe_upper_spending_fcn_ref = rule.val
              /\ rule.fails <=> (Failed /\ steps = <<"lower", "upper">>)

\* C9 witness: ss_range has bound LDOF below and the two-entry custom boundary
\* above.
C9_Witness ==
    /\ fn = "ss_range" /\ pc = "enroll"
    /\ maybe_lower_spending_fcn_ref = Some(LDOF)
    /\ maybe_upper_spending_fcn_ref = Some(Custom(<<1, 2>>))

IsPrefix(p, q) == Len(p) <= Len(q) /\ \A i \in 1..Len(p) : p[i] = q[i]

\* C10: the steps run in the order lower, upper, enroll, solve; the call stops
\* at the first step that fails and reports that step's failure; the solver is
\* invoked at most once.
C10_FirstFailureDecides ==
    /\ IsPrefix(steps, AllSteps)
    /\ solver_calls = (IF Len(steps) = 4 THEN 1 ELSE 0)
    /\ Failed => Done
    /\ Done =>
         IF LowerSite.how # "value"
         THEN steps = <<"lower">> /\ Failed /\ outcome.msg = LowerSite.msg
         ELSE IF UpperSite.how # "value"
         THEN steps = <<"lower", "upper">> /\ Failed /\ outcome.msg = UpperSite.msg
         ELSE IF ~EnrollmentRate_new(enrollment_times, enrollment_rates).ok
         THEN /\ steps = <<"lower", "upper", "enroll">>
              /\ Failed /\ outcome.msg = InvalidEnrollmentModel.text
         ELSE /\ steps = AllSteps
              /\ Failed <=> ~Unwrap(engine_ret).ok

\* C10 witness: a ctcompute call that is invalid in three ways (unknown lower
\* selector, upper "custom" without spend, times [0, 5, 3]) ended after the
\* first step with the lower selector's error.
C10_Witness ==
    /\ Done /\ fn = "ctcompute"
    /\ maybe_lower_spending_fcn = Some("OBF")
    /\ CustomWithoutSpend(maybe_upper_spending_fcn)
    /\ enrollment_times = ScenarioTimes
    /\ steps = <<"lower">>
    /\ Failed /\ outcome.msg = InvalidFmt("OBF")

====
